---- MODULE Spec2Model ----
(***************************************************************************)
(* State-machine model of pyhs (Python 3 HandlerSocket client):            *)
(*   pyhs/utils.py    encode, decode, check_columns, retry_on_failure      *)
(*   pyhs/sockets.py  Connection, HandlerSocket, ReadSocket, WriteSocket   *)
(*   pyhs/manager.py  Manager (the facade)                                 *)
(* One HandlerSocket pool is modelled; every public method is one action.  *)
(* The network is the environment: which servers accept a connect and what *)
(* happens to each request/response exchange are inputs of the actions.    *)
(***************************************************************************)
EXTENDS Integers, Sequences, FiniteSets, TLC

(* ------------------------------ bounds --------------------------------- *)
\* number of servers given to the pool constructor
NumServers == 2
\* get_index_id opens a new index only while current_index_id is below this
MaxIndexId == 2
\* the clock stops advancing here
MaxTime == 30
\* the clock of a connection that is used directly stops here
MaxConnTime == 32
\* the longest string that is encoded and decoded
MaxLen == 2
\* the longest string of a pair whose encodings are compared
MaxPairLen == 2
\* the most field tokens of a response, and the largest column count it declares
MaxFields == 3
MaxColumns == 2
\* servers of the pool whose failover is checked (more than RETRY_LIMIT)
PoolSize == 6

(* ------------------------- program constants --------------------------- *)
RETRY_INTERVAL == 30
RETRY_LIMIT == 5
\* Python's None where an integer or a connection is expected
None == -1

FIND_OPERATIONS == {"=", ">", ">=", "<", "<="}
MODIFY_OPERATIONS == {"U", "D", "+", "-", "U?", "D?", "+?", "-?"}

Conns == 1 .. NumServers
IndexIds == 0 .. MaxIndexId

\* exception classes (pyhs/exceptions.py and the built-in ones the code can raise)
OK == "ok"
ConnErr == "ConnectionError"
RecovErr == "RecoverableConnectionError"
OperErr == "OperationalError"
ValueErr == "ValueError"
RuntimeErr == "RuntimeError"
AttrErr == "AttributeError"
KeyErr == "KeyError"

\* `except ConnectionError` catches the class and its subclass
IsConnectionError(e) == e \in {ConnErr, RecovErr}

Max(a, b) == IF a >= b THEN a ELSE b

(* ----------------------------- strings --------------------------------- *)
\* sep.join(parts)
RECURSIVE Join(_, _)
Join(sep, parts) ==
    IF Len(parts) = 0 THEN ""
    ELSE IF Len(parts) = 1 THEN parts[1]
    ELSE parts[1] \o sep \o Join(sep, Tail(parts))

\* index_name = index_name or 'PRIMARY'   (None is modelled as "")
IndexNameOrPrimary(index_name) == IF index_name = "" THEN "PRIMARY" ELSE index_name

\* a cache key that leaves the field list out
CacheKeyNoFields(a) ==
    Join(":", <<a.db, a.table, IndexNameOrPrimary(a.index_name)>>)

\* cache_key = ':'.join((db, table, index_name, ','.join(fields)))
CacheKey(a) ==
    Join(":", <<a.db, a.table, IndexNameOrPrimary(a.index_name), Join(",", a.fields)>>)

\* the arguments get_index_id is called with
FieldLists == {<<"a", "b">>, <<"b", "a">>}
IndexNames == {"", "PRIMARY"}
IndexArgs ==
    [db : {"d"}, table : {"t"}, fields : FieldLists, index_name : IndexNames]
CacheKeys == {CacheKey(a) : a \in IndexArgs}

(* ------------------------------- codec --------------------------------- *)
\* a string is the sequence of its characters' ordinals; a value is None or a string
NoneValue == [none |-> TRUE, bytes |-> <<>>]
Str(bytes) == [none |-> FALSE, bytes |-> bytes]

\* ord(char) | 0x40 and ordinal ^ 0x40 on ordinals below 256
Or40(b) == IF (b \div 64) % 2 = 1 THEN b ELSE b + 64
Xor40(b) == IF (b \div 64) % 2 = 1 THEN b - 64 ELSE b + 64

\* encode that passes every character through
EncodeCharsNoEscape(chars) == chars

\* utils.encode, the loop over the characters
RECURSIVE EncodeChars(_)
EncodeChars(chars) ==
    IF Len(chars) = 0 THEN <<>>
    ELSE (IF Head(chars) <= 15 THEN <<1, Or40(Head(chars))>> ELSE <<Head(chars)>>)
         \o EncodeChars(Tail(chars))

\* encode that sends the empty token for None
EncodeNoneEmpty(value) == IF value.none THEN <<>> ELSE EncodeChars(value.bytes)

\* utils.encode
Encode(value) == IF value.none THEN <<0>> ELSE EncodeChars(value.bytes)

\* utils.decode, the loop over the iterator
RECURSIVE DecodeChars(_)
DecodeChars(chars) ==
    IF Len(chars) = 0 THEN <<>>
    ELSE IF Head(chars) # 1 THEN <<Head(chars)>> \o DecodeChars(Tail(chars))
    ELSE IF Len(chars) = 1 THEN <<1>>
    ELSE (IF chars[2] >= 64 /\ chars[2] <= 79 THEN <<Xor40(chars[2])>> ELSE <<1, chars[2]>>)
         \o DecodeChars(Tail(Tail(chars)))

\* decode without the test for the NUL token
DecodeNoSentinel(token) == Str(DecodeChars(token))

\* utils.decode
Decode(token) == IF token = <<0>> THEN NoneValue ELSE Str(DecodeChars(token))

\* the strings of at most n characters over an alphabet
Strings(alphabet, n) == UNION {[1 .. k -> alphabet] : k \in 0 .. n}

\* the ordinals that are coded: the escaped range, its image, their neighbours
CodecAlphabet == (0 .. 16) \cup (63 .. 80) \cup {127, 255}
CodecValues == {NoneValue} \cup {Str(b) : b \in Strings(CodecAlphabet, MaxLen)}

\* the ordinals of the pairs: the ends of the escaped range and of its image
PairAlphabet == {0, 1, 15, 16, 64, 79}
PairValues == {NoneValue} \cup {Str(b) : b \in Strings(PairAlphabet, MaxPairLen)}

\* a value (and a second one) handed to the codec
CodecInput(value, other) ==
    [stage |-> "value", value |-> value, other |-> other,
     encoded |-> <<>>, other_encoded |-> <<>>, decoded |-> NoneValue]

\* no value is being coded
NoCodec == [stage |-> "none", value |-> NoneValue, other |-> NoneValue,
            encoded |-> <<>>, other_encoded |-> <<>>, decoded |-> NoneValue]

(* ---------------------------- response frame --------------------------- *)
\* HandlerSocket._parse_response, `list(zip(*[decoded_tokens]*columns))`: the
\* one iterator is read `columns` tokens a row, and zip stops at the first row
\* it cannot complete (with columns = 0, zip() of nothing is empty)
Rows(fields, columns) ==
    IF columns = 0 THEN <<>>
    ELSE [i \in 1 .. (Len(fields) \div columns) |->
             [j \in 1 .. columns |-> Decode(fields[(i - 1) * columns + j])]]

\* HandlerSocket._parse_response on a response line with its status token, its
\* column count token and its field tokens
ParseFrame(resp) ==
    IF resp.status # 0 THEN [exc |-> OperErr, rows |-> <<>>]
    ELSE [exc |-> OK, rows |-> Rows(resp.fields, resp.columns)]

\* the field tokens the server sends: a NUL (None), a plain one, an escaped one
FieldTokens == {<<0>>, <<97>>, <<1, 64>>}
Responses ==
    [status : {0, 1}, columns : 0 .. MaxColumns,
     fields : UNION {[1 .. n -> FieldTokens] : n \in 0 .. MaxFields}]

\* a response line handed to _parse_response
FrameInput(resp) == [stage |-> "received", resp |-> resp, exc |-> OK, rows |-> <<>>]

\* no response is being parsed
NoFrame == FrameInput([status |-> 0, columns |-> 0, fields |-> <<>>])

(* ---------------------------- environment ------------------------------ *)
\* what happens to one request/response exchange on a socket
Faults == {"none", "send_error", "read_error", "peer_close", "error_response"}
\* a transport whose peer has gone cannot complete an exchange
DeadFaults == {"send_error", "read_error", "peer_close"}

\* random.shuffle(connections): every order of the pool
Perms == {p \in [1 .. NumServers -> Conns] : \A i, j \in 1 .. NumServers : p[i] = p[j] => i = j}
\* the order handed to a call that does not read it
AnyOrder == CHOOSE p \in Perms : TRUE

VARIABLES
    socket,             \* Connection.socket is not None, per connection
    live,               \* the transport behind the socket is still connected (environment)
    retry_time,         \* Connection.retry_time, per connection
    index_map,          \* HandlerSocket.index_map: index id -> connection (None: no entry)
    index_cache,        \* HandlerSocket.index_cache: cache key -> index id (None: no entry)
    current_index_id,   \* HandlerSocket.current_index_id
    last_connection_exception, \* HandlerSocket.last_connection_exception (None or a class)
    now,                \* time.time()
    failed_at,          \* history: when _die last ran on a connection used directly
    last,               \* history: the last call, its inputs and what it did
    codec,              \* a value on its way through encode and decode
    frame,              \* a response line on its way through _parse_response
    local               \* threading.local storage of one pool object: thread -> its attributes

vars == <<socket, live, retry_time, index_map, index_cache, current_index_id,
          last_connection_exception, now, failed_at, last, codec, frame, local>>

\* the pool as one value, threaded through the methods below
PoolState ==
    [socket |-> socket, live |-> live, retry_time |-> retry_time,
     index_map |-> index_map, index_cache |-> index_cache,
     current_index_id |-> current_index_id, lce |-> last_connection_exception,
     sent |-> <<>>, connects |-> <<>>]

\* the threads that use one pool object: the one that constructed it and another
Threads == {"main", "worker"}

\* HandlerSocket.__init__ run in a thread: the attributes it leaves
FreshPool ==
    [init |-> TRUE,
     socket |-> [c \in Conns |-> FALSE], live |-> [c \in Conns |-> FALSE],
     retry_time |-> [c \in Conns |-> 0],
     index_map |-> [i \in IndexIds |-> None], index_cache |-> [k \in CacheKeys |-> None],
     current_index_id |-> 0, lce |-> "None", sent |-> <<>>, connects |-> <<>>]

\* a thread that has not touched the pool object yet has no attributes
NoDict == [init |-> FALSE]

\* the constructor runs __init__ in the constructing thread only
InitLocal == [th \in Threads |-> IF th = "main" THEN FreshPool ELSE NoDict]

HasIndex(s, index_id) == index_id \in IndexIds /\ s.index_map[index_id] # None
CachedIds(s) == {s.index_cache[k] : k \in CacheKeys} \ {None}

(* ----------------------------- Connection ------------------------------ *)
\* Connection.disconnect
Disconnect(s, c) == [s EXCEPT !.socket[c] = FALSE, !.live[c] = FALSE]

\* _die that arms the backoff and leaves the socket in place
DieKeepSocket(s, c, t) == [s EXCEPT !.retry_time[c] = t + RETRY_INTERVAL]

\* Connection._die: arms the backoff, disconnects; the caller sees ConnectionError
Die(s, c, t) == Disconnect([s EXCEPT !.retry_time[c] = t + RETRY_INTERVAL], c)

\* is_ready that ignores the deadline
IsReadyAlways(s, c, t) == TRUE

\* is_ready that still refuses at the deadline itself
IsReadyLate(s, c, t) == ~(s.retry_time[c] # 0 /\ s.retry_time[c] >= t)

\* Connection.is_ready: the value returned
IsReady(s, c, t) == ~(s.retry_time[c] # 0 /\ s.retry_time[c] > t)

\* Connection.is_ready: the state it leaves
AfterIsReady(s, c, t) == IF IsReady(s, c, t) THEN [s EXCEPT !.retry_time[c] = 0] ELSE s

\* connect that returns without keeping the socket it has made
ConnectForgetSocket(s, c, up, t) ==
    IF s.socket[c] THEN [s |-> s, exc |-> OK]
    ELSE LET s1 == [s EXCEPT !.connects = Append(@, c)] IN
         IF c \in up
         THEN [s |-> s1, exc |-> OK]
         ELSE [s |-> Die(s1, c, t), exc |-> ConnErr]

\* Connection.connect; up is the set of servers that accept a connect
Connect(s, c, up, t) ==
    IF s.socket[c] THEN [s |-> s, exc |-> OK]
    ELSE LET s1 == [s EXCEPT !.connects = Append(@, c)] IN
         IF c \in up
         THEN [s |-> [s1 EXCEPT !.socket[c] = TRUE, !.live[c] = TRUE], exc |-> OK]
         ELSE [s |-> Die(s1, c, t), exc |-> ConnErr]

\* Connection.send
Send(s, c, req, fault, t) ==
    LET s1 == [s EXCEPT !.sent = Append(@, [conn |-> c, kind |-> req.kind, id |-> req.id,
                                            limit |-> req.limit, offset |-> req.offset,
                                            fault |-> fault])] IN
    IF fault = "send_error"
    THEN [s |-> Die(s1, c, t), exc |-> ConnErr]
    ELSE [s |-> s1, exc |-> OK]

\* Connection.readline: a failed recv goes through _die; an empty recv raises
\* RecoverableConnectionError, which `except socket.error` does not catch
Readline(s, c, fault, t) ==
    IF fault = "read_error" THEN [s |-> Die(s, c, t), exc |-> ConnErr]
    ELSE IF fault = "peer_close" THEN [s |-> [s EXCEPT !.live[c] = FALSE], exc |-> RecovErr]
    ELSE [s |-> s, exc |-> OK]

(* ---------------------------- HandlerSocket ---------------------------- *)
\* _clear_caches that forgets to zero the index id counter
ClearCachesKeepCounter(s) ==
    [s EXCEPT !.index_map = [i \in IndexIds |-> None],
              !.index_cache = [k \in CacheKeys |-> None],
              !.lce = "None"]

\* HandlerSocket._clear_caches
ClearCaches(s) ==
    [s EXCEPT !.index_map = [i \in IndexIds |-> None],
              !.current_index_id = 0,
              !.index_cache = [k \in CacheKeys |-> None],
              !.lce = "None"]

\* purge_index whose loop runs over a copy of the items: every entry of the
\* index is deleted and nothing is raised
PurgeIndexNoRaise(s, index_id) ==
    IF ~HasIndex(s, index_id) THEN [s |-> s, exc |-> KeyErr]
    ELSE [s |-> [s EXCEPT !.index_map[index_id] = None,
                          !.index_cache = [k \in CacheKeys |->
                                              IF @[k] = index_id THEN None ELSE @[k]]],
          exc |-> OK]

\* purge_index that gives the purged id back to the counter
PurgeIndexReuse(s, index_id) ==
    IF ~HasIndex(s, index_id) THEN [s |-> s, exc |-> KeyErr]
    ELSE LET s1 == [s EXCEPT !.index_map[index_id] = None, !.current_index_id = index_id]
             hits == {k \in CacheKeys : s1.index_cache[k] = index_id}
         IN IF hits = {} THEN [s |-> s1, exc |-> OK]
            ELSE LET k == CHOOSE k \in hits : TRUE
                 IN [s |-> [s1 EXCEPT !.index_cache[k] = None], exc |-> RuntimeErr]

\* HandlerSocket.purge_index: `del self.index_map[index_id]`, then a loop over
\* index_cache.items() that deletes inside the loop: Python 3 raises RuntimeError
\* ("dictionary changed size during iteration") at the step after the first deletion
PurgeIndex(s, index_id) ==
    IF ~HasIndex(s, index_id) THEN [s |-> s, exc |-> KeyErr]
    ELSE LET s1 == [s EXCEPT !.index_map[index_id] = None]
             hits == {k \in CacheKeys : s1.index_cache[k] = index_id}
         IN IF hits = {} THEN [s |-> s1, exc |-> OK]
            ELSE LET k == CHOOSE k \in hits : TRUE
                 IN [s |-> [s1 EXCEPT !.index_cache[k] = None], exc |-> RuntimeErr]

\* connections.pop() inside the loop: the next candidate, and what is left
NextConn(conn, connections) ==
    IF Len(connections) > 0 THEN connections[Len(connections)] ELSE conn
Rest(connections) ==
    IF Len(connections) > 0 THEN SubSeq(connections, 1, Len(connections) - 1) ELSE connections

\* HandlerSocket._get_connection, force_index branch of the except clause:
\* p is the result of purge_index
ForcedFailure(p, connections) ==
    IF p.exc # OK THEN [s |-> p.s, exc |-> p.exc, conn |-> None]
    ELSE [s |-> p.s, exc |-> IF Len(connections) > 0 THEN RecovErr ELSE ConnErr, conn |-> None]

\* the loop of HandlerSocket._get_connection; n iterations are left
RECURSIVE GetConnectionLoop(_, _, _, _, _, _, _, _)
RECURSIVE AfterConnect(_, _, _, _, _, _, _, _)

\* one iteration after conn.connect() has returned or raised (c)
AfterConnect(c, conn, connections, n, index_id, force_index, up, t) ==
    IF c.exc = OK
    THEN \* break, then the registration after the loop
         [s |-> IF index_id # None THEN [c.s EXCEPT !.index_map[index_id] = conn] ELSE c.s,
          exc |-> OK, conn |-> conn]
    ELSE IF force_index
    THEN ForcedFailure(PurgeIndex([c.s EXCEPT !.lce = ConnErr], index_id), connections)
    ELSE GetConnectionLoop([c.s EXCEPT !.lce = ConnErr], NextConn(conn, connections),
                           Rest(connections), n - 1, index_id, force_index, up, t)

GetConnectionLoop(s, conn, connections, n, index_id, force_index, up, t) ==
    IF n = 0
    THEN \* for ... else: exception(self.last_connection_exception) reads exc.args
         [s |-> s, exc |-> IF s.lce = "None" THEN AttrErr ELSE ConnErr, conn |-> None]
    ELSE IF ~IsReady(s, conn, t)
    THEN GetConnectionLoop(AfterIsReady(s, conn, t), NextConn(conn, connections),
                           Rest(connections), n - 1, index_id, force_index, up, t)
    ELSE AfterConnect(Connect(AfterIsReady(s, conn, t), conn, up, t), conn, connections,
                      n, index_id, force_index, up, t)

\* _get_connection that takes a connection of the pool for an unregistered id
\* also when force_index is set
GetConnectionUnforced(s, index_id, force_index, order, up, t) ==
    IF index_id # None /\ HasIndex(s, index_id)
    THEN GetConnectionLoop(s, s.index_map[index_id], order,
                           Max(RETRY_LIMIT, Len(order)), index_id, force_index, up, t)
    ELSE GetConnectionLoop(s, order[Len(order)], Rest(order),
                           Max(RETRY_LIMIT, Len(Rest(order))), index_id, force_index, up, t)

\* HandlerSocket._get_connection; order is the shuffled copy of self.connections
GetConnection(s, index_id, force_index, order, up, t) ==
    IF index_id # None /\ HasIndex(s, index_id)
    THEN GetConnectionLoop(s, s.index_map[index_id], order,
                           Max(RETRY_LIMIT, Len(order)), index_id, force_index, up, t)
    ELSE IF force_index THEN [s |-> s, exc |-> OperErr, conn |-> None]
    ELSE GetConnectionLoop(s, order[Len(order)], Rest(order),
                           Max(RETRY_LIMIT, Len(Rest(order))), index_id, force_index, up, t)

\* HandlerSocket._parse_response: a nonzero status raises OperationalError
ParseResponse(fault) == IF fault = "error_response" THEN OperErr ELSE OK

\* what an exchange on connection c meets: a transport whose peer has gone
\* fails in one of the three ways a dead transport can
FaultOn(s, c, fault) ==
    IF s.live[c] \/ fault \in DeadFaults THEN fault ELSE "peer_close"

\* HandlerSocket._call, the try block: send, readline, _parse_response
ExchangeParse(rd, fault) ==
    IF rd.exc # OK THEN rd ELSE [s |-> rd.s, exc |-> ParseResponse(fault)]
ExchangeRead(snd, c, fault, t) ==
    IF snd.exc # OK THEN snd ELSE ExchangeParse(Readline(snd.s, c, fault, t), fault)
Exchange(s, c, req, fault, t) == ExchangeRead(Send(s, c, req, fault, t), c, fault, t)

\* HandlerSocket._call, `except ConnectionError as e: self.purge_index(index_id); raise e`
\* (p is the result of purge_index, which may itself raise)
CallRaise(p, exc, conn, fault) ==
    [s |-> p.s, exc |-> IF p.exc # OK THEN p.exc ELSE exc, conn |-> conn, fault |-> fault]
CallExcept(io, req, conn, fault) ==
    IF IsConnectionError(io.exc)
    THEN CallRaise(PurgeIndex(io.s, req.id), io.exc, conn, fault)
    ELSE [s |-> io.s, exc |-> io.exc, conn |-> conn, fault |-> fault]

\* HandlerSocket._call once _get_connection has returned or raised (g)
CallOn(g, req, fault, t) ==
    IF g.exc # OK THEN [s |-> g.s, exc |-> g.exc, conn |-> None, fault |-> ""]
    ELSE CallExcept(Exchange(g.s, g.conn, req, FaultOn(g.s, g.conn, fault), t),
                    req, g.conn, FaultOn(g.s, g.conn, fault))

\* HandlerSocket._call
Call(s, req, force_index, order, up, fault, t) ==
    CallOn(GetConnection(s, req.id, force_index, order, up, t), req, fault, t)

\* HandlerSocket._open_index
OpenIndex(s, index_id, order, up, fault, t) ==
    Call(s, [kind |-> "P", id |-> index_id, limit |-> None, offset |-> None],
         FALSE, order, up, fault, t)

\* HandlerSocket.get_index_id after _open_index has returned or raised (r)
Opened(r, cache_key) ==
    IF r.exc = OK
    THEN [s |-> [r.s EXCEPT !.index_cache[cache_key] = r.s.current_index_id,
                            !.current_index_id = @ + 1],
          exc |-> OK, conn |-> r.conn, fault |-> r.fault, ret |-> r.s.current_index_id]
    ELSE [s |-> r.s, exc |-> r.exc, conn |-> r.conn, fault |-> r.fault, ret |-> None]

\* get_index_id testing the cached id for truth (`if index_id:`), so that id 0 never hits
GetIndexIdTruthy(s, a, order, up, fault, t) ==
    IF s.index_cache[CacheKey(a)] \notin {None, 0}
    THEN [s |-> s, exc |-> OK, conn |-> None, fault |-> "", ret |-> s.index_cache[CacheKey(a)]]
    ELSE Opened(OpenIndex(s, s.current_index_id, order, up, fault, t), CacheKey(a))

\* HandlerSocket.get_index_id; ret is the id returned
GetIndexId(s, a, order, up, fault, t) ==
    IF s.index_cache[CacheKey(a)] # None
    THEN [s |-> s, exc |-> OK, conn |-> None, fault |-> "", ret |-> s.index_cache[CacheKey(a)]]
    ELSE Opened(OpenIndex(s, s.current_index_id, order, up, fault, t), CacheKey(a))

\* HandlerSocket.purge_indexes
PurgeIndexes(s) ==
    LET owners == {s.index_map[i] : i \in IndexIds} \ {None}
    IN ClearCaches([s EXCEPT !.socket = [c \in Conns |-> IF c \in owners THEN FALSE ELSE @[c]],
                             !.live = [c \in Conns |-> IF c \in owners THEN FALSE ELSE @[c]]])

\* HandlerSocket.purge
Purge(s) ==
    ClearCaches([s EXCEPT !.socket = [c \in Conns |-> FALSE],
                          !.live = [c \in Conns |-> FALSE]])

\* utils.check_columns
CheckColumns(columns) == Len(columns) > 0

\* the validation of ReadSocket.find, WriteSocket.find_modify and WriteSocket.insert
Validate(q) ==
    IF q.kind = "find"
    THEN q.operation \in FIND_OPERATIONS /\ CheckColumns(q.columns)
    ELSE IF q.kind = "find_modify"
    THEN /\ q.operation \in FIND_OPERATIONS
         /\ q.modify_operation \in MODIFY_OPERATIONS
         /\ CheckColumns(q.columns)
         /\ (q.modify_operation \in {"U", "+", "-", "U?", "+?", "-?"}
               => CheckColumns(q.modify_columns))
    ELSE CheckColumns(q.columns)

\* find and find_modify with limit=1 for the parameter's default
LimitDefaultOne(q) == IF q.limit = None THEN 1 ELSE q.limit

\* the parameters `limit=0, offset=0` of find and find_modify: None stands for
\* an argument the caller does not pass
Limit(q) == IF q.limit = None THEN 0 ELSE q.limit
Offset(q) == IF q.offset = None THEN 0 ELSE q.offset

\* the query built by find, find_modify and insert (an insert has no limit
\* and no offset token)
Request(q, index_id) ==
    IF q.kind = "insert"
    THEN [kind |-> q.kind, id |-> index_id, limit |-> None, offset |-> None]
    ELSE [kind |-> q.kind, id |-> index_id, limit |-> Limit(q), offset |-> Offset(q)]

\* ReadSocket.find, WriteSocket.find_modify, WriteSocket.insert on index_id
Builder(s, q, index_id, order, up, fault, t) ==
    IF ~Validate(q) THEN [s |-> s, exc |-> ValueErr, conn |-> None, fault |-> ""]
    ELSE Call(s, Request(q, index_id), TRUE, order, up, fault, t)

\* the calls made on a ReadSocket
FindQueries ==
    {[kind |-> "find", operation |-> "=", columns |-> <<"1">>,
      modify_operation |-> "", modify_columns |-> <<>>, limit |-> None, offset |-> None],
     [kind |-> "find", operation |-> "!=", columns |-> <<"1">>,
      modify_operation |-> "", modify_columns |-> <<>>, limit |-> None, offset |-> None],
     [kind |-> "find", operation |-> ">=", columns |-> <<>>,
      modify_operation |-> "", modify_columns |-> <<>>, limit |-> None, offset |-> None]}

\* the calls made on a WriteSocket
WriteQueries ==
    {[kind |-> "find_modify", operation |-> "=", columns |-> <<"1">>,
      modify_operation |-> "U", modify_columns |-> <<"x">>, limit |-> None, offset |-> None],
     [kind |-> "find_modify", operation |-> "=", columns |-> <<"1">>,
      modify_operation |-> "D", modify_columns |-> <<>>, limit |-> None, offset |-> None],
     [kind |-> "find_modify", operation |-> "=", columns |-> <<"1">>,
      modify_operation |-> "+", modify_columns |-> <<>>, limit |-> None, offset |-> None],
     [kind |-> "find_modify", operation |-> "=", columns |-> <<"1">>,
      modify_operation |-> "X", modify_columns |-> <<"x">>, limit |-> None, offset |-> None],
     [kind |-> "find_modify", operation |-> ">", columns |-> <<"1">>,
      modify_operation |-> "U?", modify_columns |-> <<"x">>, limit |-> 2, offset |-> 1],
     [kind |-> "insert", operation |-> "", columns |-> <<"1", "x">>,
      modify_operation |-> "", modify_columns |-> <<>>, limit |-> None, offset |-> None],
     [kind |-> "insert", operation |-> "", columns |-> <<>>,
      modify_operation |-> "", modify_columns |-> <<>>, limit |-> None, offset |-> None]}

(* ------------------------------ the calls ------------------------------ *)
\* no call is in progress and the caller holds no result
Idle(after_purge) ==
    [op |-> "idle", id |-> None, key |-> "", query |-> "", exc |-> OK, ret |-> None,
     sent |-> <<>>, connects |-> <<>>, owner |-> None, cached |-> FALSE, fault |-> "",
     conn |-> None, excs |-> <<>>, up |-> {}, healthy |-> {}, after_purge |-> after_purge,
     ready |-> FALSE, at |-> 0, limit |-> None, offset |-> None]

\* a method's result r with the value it returns
WithRet(r, ret) ==
    [s |-> r.s, exc |-> r.exc, ret |-> ret,
     conn |-> IF "conn" \in DOMAIN r THEN r.conn ELSE None,
     fault |-> IF "fault" \in DOMAIN r THEN r.fault ELSE ""]

\* the result r of a builder call with the limit and offset the caller passed
WithArgs(r, q) ==
    [s |-> r.s, exc |-> r.exc, ret |-> None, conn |-> r.conn, fault |-> r.fault,
     limit |-> q.limit, offset |-> q.offset]

\* what a call leaves in `last`: r is the result of the method, run on PoolState
Done(op, id, key, query, r, up) ==
    [op |-> op, id |-> id, key |-> key, query |-> query, exc |-> r.exc, ret |-> r.ret,
     sent |-> r.s.sent, connects |-> r.s.connects,
     owner |-> IF id \in IndexIds THEN index_map[id] ELSE None,
     cached |-> id \in CachedIds(PoolState),
     fault |-> r.fault, conn |-> r.conn,
     excs |-> IF "excs" \in DOMAIN r THEN r.excs ELSE <<>>, up |-> up,
     healthy |-> {c \in Conns : (socket[c] /\ live[c]) \/ c \in up},
     after_purge |-> last.after_purge, ready |-> FALSE, at |-> now,
     limit |-> IF "limit" \in DOMAIN r THEN r.limit ELSE None,
     offset |-> IF "offset" \in DOMAIN r THEN r.offset ELSE None]

\* the pool's fields after a call
Commit(s) ==
    /\ socket' = s.socket
    /\ live' = s.live
    /\ retry_time' = s.retry_time
    /\ index_map' = s.index_map
    /\ index_cache' = s.index_cache
    /\ current_index_id' = s.current_index_id
    /\ last_connection_exception' = s.lce

IsIdle == last.op = "idle"

\* the connections a call can try to connect: no socket, not inside the backoff
\* (connect() returns at once on a connection that has a socket, and
\* _get_connection skips one that is not ready); of these, the servers that
\* accept the connect are an input of the call
Connectable == {c \in Conns : ~socket[c] /\ IsReady(PoolState, c, now)}

\* a call ends: the pool is as the method left it and the caller holds the result
Finish(op, id, key, query, r, up) ==
    /\ Commit(r.s)
    /\ last' = Done(op, id, key, query, r, up)

\* the state after the constructors: HandlerSocket.__init__ and Connection.__init__
InitPool ==
    /\ socket = [c \in Conns |-> FALSE]
    /\ live = [c \in Conns |-> FALSE]
    /\ retry_time = [c \in Conns |-> 0]
    /\ index_map = [i \in IndexIds |-> None]
    /\ index_cache = [k \in CacheKeys |-> None]
    /\ current_index_id = 0
    /\ last_connection_exception = "None"
    /\ now = 0
    /\ failed_at = [c \in Conns |-> None]
    /\ last = Idle(None)
    /\ local = InitLocal

Init ==
    /\ InitPool
    /\ codec = NoCodec
    /\ frame = NoFrame

\* the caller takes the result of the call
Return ==
    /\ ~IsIdle
    /\ last' = Idle(IF last.op = "purge" THEN last.ret ELSE None)
    /\ UNCHANGED <<socket, live, retry_time, index_map, index_cache, current_index_id,
                   last_connection_exception, now, failed_at, codec, frame, local>>

\* time passes between calls
Tick ==
    /\ IsIdle
    /\ now + RETRY_INTERVAL <= MaxTime
    /\ now' = now + RETRY_INTERVAL
    /\ UNCHANGED <<socket, live, retry_time, index_map, index_cache, current_index_id,
                   last_connection_exception, failed_at, last, codec, frame, local>>

\* pool.get_index_id(db, table, fields, index_name)
DoGetIndexId ==
    /\ IsIdle
    /\ \E a \in IndexArgs :
         \/ /\ index_cache[CacheKey(a)] # None
            /\ Finish("get_index_id", index_cache[CacheKey(a)], CacheKey(a), "",
                      GetIndexId(PoolState, a, AnyOrder, {}, "none", now), {})
         \/ /\ index_cache[CacheKey(a)] = None
            /\ current_index_id < MaxIndexId
            /\ \E order \in Perms, up \in SUBSET Connectable, fault \in Faults :
                 Finish("get_index_id", current_index_id, CacheKey(a), "",
                        GetIndexId(PoolState, a, order, up, fault, now), up)
    /\ UNCHANGED <<now, failed_at, codec, frame, local>>

\* a builder call on an index id: the validation fails, the id is not
\* registered, or the request goes out
DoBuilder(queries) ==
    /\ IsIdle
    /\ \E q \in queries, index_id \in IndexIds :
         \/ /\ ~Validate(q) \/ index_map[index_id] = None
            /\ Finish(q.kind, index_id, "", q.kind,
                      WithArgs(Builder(PoolState, q, index_id, AnyOrder, {}, "none", now), q), {})
         \/ /\ Validate(q) /\ index_map[index_id] # None
            /\ \E order \in Perms, up \in SUBSET Connectable, fault \in Faults :
                 Finish(q.kind, index_id, "", q.kind,
                        WithArgs(Builder(PoolState, q, index_id, order, up, fault, now), q),
                        up)
    /\ UNCHANGED <<now, failed_at, codec, frame, local>>

\* read_socket.find(index_id, operation, columns)
DoFind == DoBuilder(FindQueries)

\* write_socket.find_modify(...) and write_socket.insert(...)
DoWrite == DoBuilder(WriteQueries)

\* pool.purge()
DoPurge ==
    /\ IsIdle
    /\ Finish("purge", None, "", "",
              [s |-> Purge(PoolState), exc |-> OK, fault |-> "", conn |-> None,
               ret |-> Cardinality({i \in IndexIds : index_map[i] # None})], {})
    /\ UNCHANGED <<now, failed_at, codec, frame, local>>

\* pool.purge_indexes()
DoPurgeIndexes ==
    /\ IsIdle
    /\ Finish("purge_indexes", None, "", "",
              [s |-> PurgeIndexes(PoolState), exc |-> OK, fault |-> "", conn |-> None,
               ret |-> None], {})
    /\ UNCHANGED <<now, failed_at, codec, frame, local>>

\* pool.purge_index(index_id)
DoPurgeIndex ==
    /\ IsIdle
    /\ \E index_id \in IndexIds :
         Finish("purge_index", index_id, "", "",
                WithRet(PurgeIndex(PoolState, index_id), None), {})
    /\ UNCHANGED <<now, failed_at, codec, frame, local>>

Next ==
    \/ DoGetIndexId
    \/ DoFind
    \/ DoPurge
    \/ DoPurgeIndexes
    \/ DoPurgeIndex
    \/ Tick
    \/ Return

Spec == Init /\ [][Next]_vars

\* a WriteSocket pool
NextWrite ==
    \/ DoGetIndexId
    \/ DoWrite
    \/ DoPurge
    \/ Tick
    \/ Return

SpecWrite == Init /\ [][NextWrite]_vars

(* --------------------- a connection used directly ---------------------- *)
\* the connection of the pool whose methods are called directly
Direct == {AnyOrder[1]}

\* what a direct call on connection c leaves in `last`
ConnDone(op, c, exc, ready) ==
    [Idle(None) EXCEPT !.op = op, !.conn = c, !.exc = exc, !.ready = ready, !.at = now]

\* a direct call ends: r is the result of the method; ConnectionError comes
\* from _die only
ConnFinish(op, c, r) ==
    /\ socket' = r.s.socket
    /\ live' = r.s.live
    /\ retry_time' = r.s.retry_time
    /\ failed_at' = IF r.exc = ConnErr THEN [failed_at EXCEPT ![c] = now] ELSE failed_at
    /\ last' = ConnDone(op, c, r.exc, FALSE)

\* what no method of a connection touches
PoolCaches == <<index_map, index_cache, current_index_id, last_connection_exception>>

\* conn.connect(); the server accepts it or not
ConnConnect ==
    /\ \E c \in Direct :
         \E up \in SUBSET {c} : ConnFinish("connect", c, Connect(PoolState, c, up, now))
    /\ UNCHANGED <<PoolCaches, now, codec, frame, local>>

\* conn.send(data) on a connected connection
ConnSend ==
    \E c \in Direct, fault \in {"none", "send_error"} :
        /\ socket[c]
        /\ ConnFinish("send", c, Send(PoolState, c, [kind |-> "data", id |-> None,
                                                          limit |-> None, offset |-> None],
                                      FaultOn(PoolState, c, fault), now))
        /\ UNCHANGED <<PoolCaches, now, codec, frame, local>>

\* conn.readline() on a connected connection
ConnReadline ==
    \E c \in Direct, fault \in {"none", "read_error", "peer_close"} :
        /\ socket[c]
        /\ ConnFinish("readline", c, Readline(PoolState, c, FaultOn(PoolState, c, fault), now))
        /\ UNCHANGED <<PoolCaches, now, codec, frame, local>>

\* conn.disconnect()
ConnDisconnect ==
    /\ \E c \in Direct :
         ConnFinish("disconnect", c, [s |-> Disconnect(PoolState, c), exc |-> OK])
    /\ UNCHANGED <<PoolCaches, now, codec, frame, local>>

\* conn.is_ready()
ConnIsReady ==
    \E c \in Direct :
        /\ retry_time' = AfterIsReady(PoolState, c, now).retry_time
        /\ last' = ConnDone("is_ready", c, OK, IsReady(PoolState, c, now))
        /\ UNCHANGED <<socket, live, index_map, index_cache, current_index_id,
                       last_connection_exception, now, failed_at, codec, frame, local>>

\* a second passes
ConnTick ==
    /\ now < MaxConnTime
    /\ now' = now + 1
    /\ UNCHANGED <<socket, live, retry_time, index_map, index_cache, current_index_id,
                   last_connection_exception, failed_at, last, codec, frame, local>>

NextDirect ==
    \/ ConnConnect
    \/ ConnSend
    \/ ConnReadline
    \/ ConnDisconnect
    \/ ConnIsReady
    \/ ConnTick

SpecConn == Init /\ [][NextDirect]_vars

(* ------------------------------ the codec ------------------------------ *)
InitCodec ==
    /\ InitPool
    /\ \E v \in CodecValues : codec = CodecInput(v, v)
    /\ frame = NoFrame

InitCodecPair ==
    /\ InitPool
    /\ \E v, w \in PairValues : codec = CodecInput(v, w)
    /\ frame = NoFrame

\* encode(value), encode(other)
DoEncode ==
    /\ codec.stage = "value"
    /\ codec' = [codec EXCEPT !.stage = "encoded",
                              !.encoded = Encode(codec.value),
                              !.other_encoded = Encode(codec.other)]
    /\ UNCHANGED <<socket, live, retry_time, index_map, index_cache, current_index_id,
                   last_connection_exception, now, failed_at, last, frame, local>>

\* decode(encoded)
DoDecode ==
    /\ codec.stage = "encoded"
    /\ codec' = [codec EXCEPT !.stage = "decoded", !.decoded = Decode(codec.encoded)]
    /\ UNCHANGED <<socket, live, retry_time, index_map, index_cache, current_index_id,
                   last_connection_exception, now, failed_at, last, frame, local>>

NextCodec ==
    \/ DoEncode
    \/ DoDecode

SpecCodec == InitCodec /\ [][NextCodec]_vars

SpecCodecPair == InitCodecPair /\ [][NextCodec]_vars

(* -------------------------- the response parser ------------------------ *)
InitFrame ==
    /\ InitPool
    /\ codec = NoCodec
    /\ \E resp \in Responses : frame = FrameInput(resp)

\* _parse_response(raw_data)
DoParse ==
    /\ frame.stage = "received"
    /\ frame' = [stage |-> "parsed", resp |-> frame.resp,
                 exc |-> ParseFrame(frame.resp).exc, rows |-> ParseFrame(frame.resp).rows]
    /\ UNCHANGED <<socket, live, retry_time, index_map, index_cache, current_index_id,
                   last_connection_exception, now, failed_at, last, codec, local>>

NextFrame == DoParse

SpecFrame == InitFrame /\ [][NextFrame]_vars

(* ----------------------------- the facade ------------------------------ *)
\* retry that fires on any connection error
RetryableAny(exc) == IsConnectionError(exc)

\* retry_on_failure, `except RecoverableConnectionError`
Retryable(exc) == exc = RecovErr

\* the result r of an invocation, with the outcomes of the invocations so far
WithExcs(r, excs) ==
    [s |-> r.s, exc |-> r.exc, ret |-> None, conn |-> r.conn, fault |-> r.fault,
     excs |-> Append(excs, r.exc)]

\* the shuffles and the server's behaviours a request can meet; a step that
\* sends no request meets none
Envs(sends) == IF sends THEN Perms \X Faults ELSE {<<AnyOrder, "none">>}

\* Manager.find after get_index_id has returned or raised (r): the results of
\* read_socket.find
FindAfterIndex(r, q, up, t, excs) ==
    IF r.exc # OK THEN {WithExcs(r, excs)}
    ELSE {WithExcs(Builder(r.s, q, r.ret, e[1], up, e[2], t), excs) : e \in Envs(Validate(q))}

\* the body of Manager.find, invoked once: get_index_id, then find
ManagerFindOnce(s, a, q, up, t, excs) ==
    UNION {FindAfterIndex(GetIndexId(s, a, e[1], up, e[2], t), q, up, t, excs) :
               e \in Envs(s.index_cache[CacheKey(a)] = None)}

\* retry_on_failure after the first invocation has returned or raised (o)
Retried(o, a, q, up, t) ==
    IF Retryable(o.exc) THEN ManagerFindOnce(o.s, a, q, up, t, o.excs) ELSE {o}

\* Manager.find: the function wrapped by retry_on_failure
ManagerFind(s, a, q, up, t) ==
    UNION {Retried(o, a, q, up, t) : o \in ManagerFindOnce(s, a, q, up, t, <<>>)}

\* the arguments of the facade calls: index_name is left to its default, the
\* operation is a valid one or not
FacadeArgs == {a \in IndexArgs : a.index_name = ""}
FacadeQueries == {q \in FindQueries : CheckColumns(q.columns)}

\* manager.find(db, table, operation, fields, values, index_name)
DoManagerFind ==
    /\ IsIdle
    /\ current_index_id < MaxIndexId
    /\ \E a \in FacadeArgs, q \in FacadeQueries, up \in SUBSET Connectable :
         \E o \in ManagerFind(PoolState, a, q, up, now) :
             Finish("manager_find", None, CacheKey(a), q.kind, o, up)
    /\ UNCHANGED <<now, failed_at, codec, frame, local>>

\* the facade over its read pool; manager.purge() purges the pool
NextManager ==
    \/ DoManagerFind
    \/ DoPurge
    \/ Tick
    \/ Return

SpecManager == Init /\ [][NextManager]_vars

(* -------------------------- the facade's writes ------------------------ *)
\* what Manager.incr hands to the write pool: its own defaults limit=0,
\* offset=0 and step=['1'] go to find_modify
IncrQuery ==
    [kind |-> "find_modify", operation |-> "=", columns |-> <<"1">>,
     modify_operation |-> "+", modify_columns |-> <<"1">>, limit |-> 0, offset |-> 0]

\* Manager.incr after write_socket.get_index_id has returned or raised (r):
\* the results of write_socket.find_modify
IncrAfterIndex(r, q, up, t, excs) ==
    IF r.exc # OK THEN {WithExcs(r, excs)}
    ELSE {WithExcs(Builder(r.s, q, r.ret, e[1], up, e[2], t), excs) : e \in Envs(Validate(q))}

\* the body of Manager.incr, invoked once: get_index_id, then find_modify
\* (update, decr, delete and insert have the same shape)
ManagerIncrOnce(s, a, q, up, t, excs) ==
    UNION {IncrAfterIndex(GetIndexId(s, a, e[1], up, e[2], t), q, up, t, excs) :
               e \in Envs(s.index_cache[CacheKey(a)] = None)}

\* retry_on_failure around Manager.incr, after the first invocation (o)
RetriedIncr(o, a, q, up, t) ==
    IF Retryable(o.exc) THEN ManagerIncrOnce(o.s, a, q, up, t, o.excs) ELSE {o}

\* Manager.incr: the function wrapped by retry_on_failure
ManagerIncr(s, a, q, up, t) ==
    UNION {RetriedIncr(o, a, q, up, t) : o \in ManagerIncrOnce(s, a, q, up, t, <<>>)}

\* manager.incr(db, table, operation, fields, values)
DoManagerIncr ==
    /\ IsIdle
    /\ current_index_id < MaxIndexId
    /\ \E a \in FacadeArgs, up \in SUBSET Connectable :
         \E o \in ManagerIncr(PoolState, a, IncrQuery, up, now) :
             Finish("manager_incr", None, CacheKey(a), IncrQuery.kind, o, up)
    /\ UNCHANGED <<now, failed_at, codec, frame, local>>

\* the facade over its write pool; manager.purge() purges the pool
NextManagerWrite ==
    \/ DoManagerIncr
    \/ DoPurge
    \/ Tick
    \/ Return

SpecManagerWrite == Init /\ [][NextManagerWrite]_vars


(* ------------------- one pool object, several threads ------------------ *)
\* a plain object: every thread's attribute access reaches the attributes the
\* constructor made
LocalKeyShared(th) == "main"

\* class HandlerSocket(threading.local): an attribute access in thread th
\* reaches the thread's own attributes
LocalKey(th) == th

\* the attributes a method run in thread th works on; threading.local runs
\* __init__ again, with the constructor's arguments, at a thread's first access
Attrs(th) ==
    IF local[LocalKey(th)].init THEN local[LocalKey(th)] ELSE FreshPool

\* the connections of the call's log, each with the attributes it belongs to
SentOn(th, s) == {<<LocalKey(th), s.sent[i].conn>> : i \in 1 .. Len(s.sent)}

\* a method run in thread th ends: r is its result on Attrs(th)
ThreadFinish(th, op, r) ==
    /\ local' = [local EXCEPT ![LocalKey(th)] = [r.s EXCEPT !.sent = <<>>, !.connects = <<>>]]
    /\ last' = [op |-> op, thread |-> th, exc |-> r.exc, sent |-> SentOn(th, r.s)]

\* what a method run on a thread's attributes does not touch
OutsideLocal == <<socket, live, retry_time, index_map, index_cache, current_index_id,
                  last_connection_exception, now, failed_at, codec, frame>>

\* what the threads ask for: one index, and exchanges that succeed or lose the
\* connection
ThreadArgs == {a \in FacadeArgs : a.fields = <<"a", "b">>}
ThreadFaults == {"none", "send_error"}

\* the connections of thread th's pool that a call can try to connect
ThreadConnectable(th) ==
    {c \in Conns : ~Attrs(th).socket[c] /\ IsReady(Attrs(th), c, now)}

\* pool.get_index_id(...) in thread th
ThreadGetIndexId(th) ==
    /\ \E a \in ThreadArgs :
         \/ /\ Attrs(th).index_cache[CacheKey(a)] # None
            /\ ThreadFinish(th, "get_index_id",
                            GetIndexId(Attrs(th), a, AnyOrder, {}, "none", now))
         \/ /\ Attrs(th).index_cache[CacheKey(a)] = None
            /\ Attrs(th).current_index_id < MaxIndexId
            /\ \E order \in Perms, up \in SUBSET ThreadConnectable(th), fault \in ThreadFaults :
                 ThreadFinish(th, "get_index_id",
                              GetIndexId(Attrs(th), a, order, up, fault, now))
    /\ UNCHANGED OutsideLocal

\* pool.find(index_id, operation, columns) in thread th, on a registered id
ThreadFind(th) ==
    /\ \E q \in FacadeQueries, index_id \in IndexIds :
         /\ Validate(q)
         /\ HasIndex(Attrs(th), index_id)
         /\ \E order \in Perms, up \in SUBSET ThreadConnectable(th), fault \in ThreadFaults :
              ThreadFinish(th, "find", Builder(Attrs(th), q, index_id, order, up, fault, now))
    /\ UNCHANGED OutsideLocal

\* pool.purge() in thread th
ThreadPurge(th) ==
    /\ ThreadFinish(th, "purge", [s |-> Purge(Attrs(th)), exc |-> OK])
    /\ UNCHANGED OutsideLocal

NextThreads ==
    \E th \in Threads :
        \/ ThreadGetIndexId(th)
        \/ ThreadFind(th)
        \/ ThreadPurge(th)

SpecThreads == Init /\ [][NextThreads]_vars

(* ------------------------ failover in a large pool --------------------- *)
\* the connections of a pool built over PoolSize servers
PoolConns == 1 .. PoolSize

\* random.shuffle(connections): the orders tried are the rotations of the pool,
\* so that every connection takes every position
Rotations == {[i \in PoolConns |-> ((i + k) % PoolSize) + 1] : k \in PoolConns}

\* the state after the constructor of a pool over PoolSize servers
InitFailover ==
    /\ socket = [c \in PoolConns |-> FALSE]
    /\ live = [c \in PoolConns |-> FALSE]
    /\ retry_time = [c \in PoolConns |-> 0]
    /\ index_map = [i \in IndexIds |-> None]
    /\ index_cache = [k \in CacheKeys |-> None]
    /\ current_index_id = 0
    /\ last_connection_exception = "None"
    /\ now = 0
    /\ failed_at = [c \in Conns |-> None]
    /\ last = Idle(None)
    /\ local = InitLocal
    /\ codec = NoCodec
    /\ frame = NoFrame

\* the connections whose connect() can be attempted: no socket, backoff over
PoolConnectable == {c \in PoolConns : ~socket[c] /\ IsReady(PoolState, c, now)}

\* the connections a resolve could use: ready, and connected already or with a
\* server that accepts the connect
Reachable(up) ==
    {c \in PoolConns : IsReady(PoolState, c, now) /\ (socket[c] \/ c \in up)}

\* pool._get_connection(): no index id, no force_index; g is what it returns
\* or raises
ResolveDone(g, up) ==
    /\ socket' = g.s.socket
    /\ live' = g.s.live
    /\ retry_time' = g.s.retry_time
    /\ last_connection_exception' = g.s.lce
    /\ last' = [op |-> "resolve", exc |-> g.exc, conn |-> g.conn,
                reachable |-> Reachable(up)]

\* the hardest case for a failover: at most one server accepts a connect
DoResolve ==
    /\ \E order \in Rotations, up \in {u \in SUBSET PoolConnectable : Cardinality(u) <= 1} :
         ResolveDone(GetConnection(PoolState, None, FALSE, order, up, now), up)
    /\ UNCHANGED <<index_map, index_cache, current_index_id, now, failed_at, codec, frame,
                   local>>

\* a connection of the pool loses its socket (one request on it failed)
DoDrop ==
    /\ \E c \in PoolConns :
         /\ socket[c]
         /\ socket' = Die(PoolState, c, now).socket
         /\ live' = Die(PoolState, c, now).live
         /\ retry_time' = Die(PoolState, c, now).retry_time
         /\ last' = [op |-> "drop", exc |-> ConnErr, conn |-> c, reachable |-> {}]
    /\ UNCHANGED <<index_map, index_cache, current_index_id, last_connection_exception,
                   now, failed_at, codec, frame, local>>

\* the backoff interval passes
FailoverTick ==
    /\ now + RETRY_INTERVAL <= MaxTime
    /\ now' = now + RETRY_INTERVAL
    /\ UNCHANGED <<socket, live, retry_time, index_map, index_cache, current_index_id,
                   last_connection_exception, failed_at, last, codec, frame, local>>

NextFailover ==
    \/ DoResolve
    \/ DoDrop
    \/ FailoverTick

SpecFailover == InitFailover /\ [][NextFailover]_vars

(* ------------------------- the resolve on its own ---------------------- *)
\* the arguments _get_connection is called with: no index id; the id about to
\* be opened, without force_index (_open_index); any id, with force_index (find,
\* find_modify, insert)
ResolveArgs ==
    {<<None, FALSE>>, <<current_index_id, FALSE>>} \cup {<<i, TRUE>> : i \in IndexIds}

\* pool._get_connection(index_id, force_index)
DoGetConnection ==
    /\ IsIdle
    /\ \E x \in ResolveArgs :
         \E index_id \in {x[1]}, force_index \in {x[2]}, order \in Perms,
            up \in SUBSET Connectable :
             Finish("get_connection", index_id, "", "",
                    WithRet(GetConnection(PoolState, index_id, force_index, order, up, now),
                            None), up)
    /\ UNCHANGED <<now, failed_at, codec, frame, local>>

\* the resolve among the calls that register indexes and lose connections
NextResolve ==
    \/ DoGetConnection
    \/ DoGetIndexId
    \/ Tick
    \/ Return

SpecResolve == Init /\ [][NextResolve]_vars

(* --------------------------- the request line ------------------------- *)
\* the ordinals of the column values of a request: NUL, tab, line feed and a
\* letter
RequestAlphabet == {0, 9, 10, 97}
RequestValues == {NoneValue} \cup {Str(b) : b \in Strings(RequestAlphabet, MaxPairLen)}

\* the column lists a caller passes to find: check_columns wants one value at least
RequestColumns == UNION {[1 .. n -> RequestValues] : n \in 1 .. MaxColumns}

\* str(n) for a number of one digit
Digit(n) == <<48 + n>>

\* ReadSocket.find, the tokens of the query for index id 0 and operation '=':
\* (str(index_id), operation, str(len(columns))), the encoded columns,
\* (str(limit), str(offset)) with the defaults
FindTokens(columns) ==
    <<Digit(0), <<61>>, Digit(Len(columns))>>
        \o [i \in 1 .. Len(columns) |-> Encode(columns[i])]
        \o <<Digit(0), Digit(0)>>

\* HandlerSocket._call, `'\t'.join(query)+'\n'`
RequestLine(tokens) == Join(<<9>>, tokens) \o <<10>>

\* a column list handed to find
RequestInput(columns) ==
    [stage |-> "columns", columns |-> columns, tokens |-> <<>>, line |-> <<>>]

InitRequest ==
    /\ InitPool
    /\ \E columns \in RequestColumns : codec = RequestInput(columns)
    /\ frame = NoFrame

\* find builds the query and _call joins it into the line it sends
DoBuildRequest ==
    /\ codec.stage = "columns"
    /\ codec' = [codec EXCEPT !.stage = "line",
                              !.tokens = FindTokens(codec.columns),
                              !.line = RequestLine(FindTokens(codec.columns))]
    /\ UNCHANGED <<socket, live, retry_time, index_map, index_cache, current_index_id,
                   last_connection_exception, now, failed_at, last, frame, local>>

NextRequest == DoBuildRequest

SpecRequest == InitRequest /\ [][NextRequest]_vars

(* ------------------------------ the claims ----------------------------- *)
BuilderOps == {"find", "find_modify", "insert"}
PoolVars == <<socket, live, retry_time, index_map, index_cache, current_index_id,
              last_connection_exception>>
SendsOf(l) == {l.sent[i] : i \in 1 .. Len(l.sent)}

\* C1 (as claimed). Affinity: a find, find_modify or insert on an index id that
\* is registered in index_map sends its request on the connection registered for
\* it when the call starts and on no other connection of the pool, whatever the
\* state of that connection.
C1_Affinity ==
    (last.op \in BuilderOps /\ last.owner # None)
        => \A m \in SendsOf(last) : m.conn = last.owner

\* C2 (as claimed). When send or readline fails with a connection-level failure
\* inside _call for index id i, then when the error reaches the caller i is in
\* neither index_map nor index_cache, and the error is that connection error
\* (RecoverableConnectionError for a peer close, ConnectionError otherwise).
C2_PurgedSameError ==
    (last.op \in BuilderOps \cup {"get_index_id"} /\ last.fault \in DeadFaults)
        => /\ index_map[last.id] = None
           /\ last.id \notin CachedIds(PoolState)
           /\ last.exc = IF last.fault = "peer_close" THEN RecovErr ELSE ConnErr

\* C5. Cache idempotence: a get_index_id call whose key is in index_cache returns
\* the cached id, sends nothing, attempts no connect and leaves the counter, both
\* caches and every connection unchanged; a call whose key is not cached and that
\* succeeds sends exactly one open-index request, for the id it returns, and
\* caches that id under the key. So two calls with the same arguments and nothing
\* in between return the same id for one open-index request.
C5_CacheIdempotence ==
    [][\A a \in IndexArgs :
        (IsIdle /\ last'.op = "get_index_id" /\ last'.key = CacheKey(a))
            => IF index_cache[CacheKey(a)] # None
               THEN /\ last'.exc = OK
                    /\ last'.ret = index_cache[CacheKey(a)]
                    /\ last'.sent = <<>>
                    /\ last'.connects = <<>>
                    /\ UNCHANGED PoolVars
               ELSE last'.exc = OK
                    => /\ Len(last'.sent) = 1
                       /\ last'.sent[1].kind = "P"
                       /\ last'.sent[1].id = last'.ret
                       /\ index_cache'[CacheKey(a)] = last'.ret]_vars

\* C5 witness: a get_index_id call has hit the cache
C5_Witness ==
    /\ last.op = "get_index_id"
    /\ last.cached
    /\ last.exc = OK
    /\ last.sent = <<>>
    /\ index_cache[last.key] = last.ret

\* two argument lists that differ only in the order of their two fields
Swapped(a1, a2) ==
    /\ a1.db = a2.db /\ a1.table = a2.table /\ a1.index_name = a2.index_name
    /\ Len(a1.fields) = 2
    /\ a1.fields[1] # a1.fields[2]
    /\ a2.fields = <<a1.fields[2], a1.fields[1]>>

\* C6. Index-key sensitivity: for the same db, table and index_name, the field
\* lists (a,b) and (b,a) have different cache keys; when both are open they have
\* different index ids; and opening one while the other is cached is a cache
\* miss that sends its own open-index request and returns another id.
C6_IndexKeySensitivity ==
    \A a1, a2 \in IndexArgs :
        Swapped(a1, a2)
            => /\ CacheKey(a1) # CacheKey(a2)
               /\ (index_cache[CacheKey(a1)] # None /\ index_cache[CacheKey(a2)] # None)
                     => index_cache[CacheKey(a1)] # index_cache[CacheKey(a2)]
               /\ (/\ last.op = "get_index_id" /\ last.key = CacheKey(a2)
                   /\ last.exc = OK /\ ~last.cached
                   /\ index_cache[CacheKey(a1)] # None)
                     => /\ last.ret # index_cache[CacheKey(a1)]
                        /\ Len(last.sent) = 1
                        /\ last.sent[1].kind = "P"

\* C6 witness: (a,b) and (b,a) are both open, the second one just opened
C6_Witness ==
    \E a1, a2 \in IndexArgs :
        /\ Swapped(a1, a2)
        /\ index_cache[CacheKey(a1)] # None
        /\ last.op = "get_index_id" /\ last.key = CacheKey(a2) /\ last.exc = OK
        /\ ~last.cached
        /\ index_cache[CacheKey(a2)] = last.ret

\* C8. Purge semantics: after purge() no connection has a socket, both caches
\* are empty and the counter is 0; a get_index_id that follows it and succeeds
\* has connected the connection it used, has sent one open-index request with
\* index id 0 on it, returns 0 and has registered id 0 in both caches.
C8_PurgeSemantics ==
    /\ last.op = "purge"
         => /\ \A c \in Conns : ~socket[c]
            /\ \A i \in IndexIds : index_map[i] = None
            /\ \A k \in CacheKeys : index_cache[k] = None
            /\ current_index_id = 0
    /\ (last.op = "get_index_id" /\ last.after_purge # None /\ last.exc = OK)
         => /\ last.ret = 0
            /\ Len(last.connects) >= 1
            /\ last.connects[Len(last.connects)] = last.conn
            /\ Len(last.sent) = 1
            /\ last.sent[1].conn = last.conn
            /\ last.sent[1].kind = "P"
            /\ last.sent[1].id = 0
            /\ index_cache[last.key] = 0
            /\ index_map[0] = last.conn
            /\ current_index_id = 1

\* C8 witness: an index has been opened right after a purge that dropped two
C8_Witness ==
    /\ last.op = "get_index_id"
    /\ last.after_purge = 2
    /\ last.exc = OK
    /\ last.ret = 0

\* the requests of a call that met a fault, in the order they were sent
Faulty(l) == SelectSeq(l.sent, LAMBDA m : m.fault # "none")

\* C3 (as claimed). Recoverable-failure protocol: in a pool of at least two
\* servers, when the peer closes the socket during a read of a facade call (a
\* call with valid arguments, whose validation raises no ValueError, and that
\* meets no other fault) while another server is healthy, the facade
\* invokes the operation twice, the first invocation raising the recoverable
\* error; the call succeeds on a connection other than the one whose peer
\* closed, and the index is registered again, on that connection.
C3_RecoverableProtocol ==
    (/\ last.op = "manager_find"
     /\ \A i \in 1 .. Len(last.excs) : last.excs[i] # ValueErr
     /\ Len(Faulty(last)) = 1
     /\ Faulty(last)[1].fault = "peer_close"
     /\ last.healthy \ {Faulty(last)[1].conn} # {})
        => /\ last.excs = <<RecovErr, OK>>
           /\ last.conn \notin {None, Faulty(last)[1].conn}
           /\ index_cache[last.key] # None
           /\ index_map[index_cache[last.key]] = last.conn

\* C4. Retry guard: a facade call invokes the wrapped operation once or twice;
\* twice exactly when the first invocation raised RecoverableConnectionError;
\* what the caller gets is the outcome of the last invocation, so an error of
\* the second invocation, and a ConnectionError, OperationalError or ValueError
\* of the first, reach the caller as they are.
C4_RetryGuard ==
    last.op = "manager_find"
        => /\ Len(last.excs) \in {1, 2}
           /\ (Len(last.excs) = 2) <=> (last.excs[1] = RecovErr)
           /\ last.exc = last.excs[Len(last.excs)]

\* C4 witness: the first invocation raised the recoverable error and the error
\* of the second one reached the caller
C4_Witness ==
    /\ last.op = "manager_find"
    /\ Len(last.excs) = 2
    /\ last.excs[1] = RecovErr
    /\ last.excs[2] = ConnErr
    /\ last.exc = ConnErr

\* C7. Backoff respect: once _die has run on a connection at time t, is_ready()
\* called at time u returns true exactly when u >= t + RETRY_INTERVAL, and a
\* call that returns true leaves retry_time at 0.
C7_BackoffRespect ==
    (last.op = "is_ready" /\ failed_at[last.conn] # None)
        => /\ last.ready <=> (last.at >= failed_at[last.conn] + RETRY_INTERVAL)
           /\ last.ready => retry_time[last.conn] = 0

\* C7 witness: is_ready() has returned true at the deadline itself
C7_Witness ==
    /\ last.op = "is_ready"
    /\ failed_at[last.conn] # None
    /\ last.at = failed_at[last.conn] + RETRY_INTERVAL
    /\ last.ready
    /\ retry_time[last.conn] = 0

\* C9. Codec round-trip: decode(encode(v)) = v for None and for every string v.
C9_RoundTrip ==
    codec.stage = "decoded" => codec.decoded = codec.value

\* C9 witness: a string that reads like an escape sequence has come back
C9_Witness ==
    /\ codec.stage = "decoded"
    /\ codec.value = Str(<<1, 64>>)
    /\ codec.encoded = <<1, 65, 64>>
    /\ codec.decoded = codec.value

\* C10. Encoding is injective: two distinct values have distinct encodings, and
\* no string has the encoding of None, the single NUL.
C10_Injective ==
    codec.stage \in {"encoded", "decoded"}
        => /\ codec.value # codec.other => codec.encoded # codec.other_encoded
           /\ ~codec.value.none => codec.encoded # <<0>>

\* C10 witness: None and the string of one NUL have been encoded
C10_Witness ==
    /\ codec.stage = "encoded"
    /\ codec.value = NoneValue
    /\ codec.other = Str(<<0>>)
    /\ codec.encoded = <<0>>
    /\ codec.other_encoded = <<1, 64>>

\* C11 (as claimed). Validation errors never touch the network: a builder call
\* or a facade call whose arguments fail the validation raises ValueError, has
\* attempted no connect and sent no request (no open-index request either),
\* leaves the caches, the counter and the connections unchanged, and is invoked
\* once.
C11_ValidationNoNetwork ==
    [][(/\ IsIdle
        /\ last'.op \in BuilderOps \cup {"manager_find"}
        /\ last'.exc = ValueErr
        /\ (last'.excs = <<>> \/ last'.excs[1] = ValueErr))
          => /\ last'.sent = <<>>
             /\ last'.connects = <<>>
             /\ Len(last'.excs) <= 1
             /\ UNCHANGED PoolVars]_vars

RECURSIVE Flatten(_)
Flatten(rows) == IF Len(rows) = 0 THEN <<>> ELSE Head(rows) \o Flatten(Tail(rows))

\* C13 (as claimed). Frame parsing: for a success response that declares N >= 1
\* columns, when the number of field tokens is a multiple of N the rows returned
\* have N decoded fields each and hold every field token in wire order; when it
\* is not, the response is surfaced as an error.
C13_FrameParsing ==
    (frame.stage = "parsed" /\ frame.resp.status = 0 /\ frame.resp.columns >= 1)
        => IF Len(frame.resp.fields) % frame.resp.columns = 0
           THEN /\ frame.exc = OK
                /\ \A i \in 1 .. Len(frame.rows) : Len(frame.rows[i]) = frame.resp.columns
                /\ Flatten(frame.rows)
                     = [k \in 1 .. Len(frame.resp.fields) |-> Decode(frame.resp.fields[k])]
           ELSE frame.exc # OK

\* C14 (as claimed). Affinity-bound failure classification: when a find,
\* find_modify or insert on a registered index id fails to connect the owning
\* connection, the id is purged from both caches and the error is
\* RecoverableConnectionError when the pool has another connection,
\* ConnectionError when the owning connection is the only one.
C14_AffinityFailure ==
    (/\ last.op \in BuilderOps
     /\ last.owner # None
     /\ last.connects = <<last.owner>>
     /\ last.owner \notin last.up)
        => /\ index_map[last.id] = None
           /\ last.id \notin CachedIds(PoolState)
           /\ last.exc = IF Conns \ {last.owner} # {} THEN RecovErr ELSE ConnErr

\* C15 (as claimed). Terminal failure: a get_index_id that misses the cache and
\* ends in _get_connection with no connection selected (every connection was
\* inside its backoff window or failed to connect) raises ConnectionError.
C15_TerminalFailure ==
    (/\ last.op = "get_index_id"
     /\ ~last.cached
     /\ last.exc # OK
     /\ last.conn = None)
        => last.exc = ConnErr

\* C16. Unregistered handle: a find, find_modify or insert whose arguments pass
\* the validation, on an index id that is not in index_map, raises
\* OperationalError; no connect is attempted, nothing is sent, and the caches,
\* the counter and every connection are as before the call.
C16_UnregisteredHandle ==
    [][(/\ IsIdle
        /\ last'.op \in BuilderOps
        /\ index_map[last'.id] = None
        /\ last'.exc # ValueErr)
          => /\ last'.exc = OperErr
             /\ last'.sent = <<>>
             /\ last'.connects = <<>>
             /\ UNCHANGED PoolVars]_vars

\* C16 witness: an insert right after a purge that dropped an index was refused
C16_Witness ==
    /\ last.op = "insert"
    /\ last.after_purge = 1
    /\ last.owner = None
    /\ last.exc = OperErr
    /\ last.sent = <<>>

\* the ids that are keys of index_map
MappedIds(s) == {i \in IndexIds : s.index_map[i] # None}

\* C17 (as claimed). Registry consistency: between pool operations the index ids
\* that are values of index_cache are the keys of index_map.
C17_RegistryConsistency ==
    CachedIds(PoolState) = MappedIds(PoolState)

\* C18 (as claimed). Failed open is side-effect free on the registry: after a
\* get_index_id that misses the cache and fails, current_index_id, index_cache
\* and index_map are what they were before the call.
C18_FailedOpenNoEffect ==
    [][(/\ IsIdle
        /\ last'.op = "get_index_id"
        /\ last'.exc # OK)
          => UNCHANGED <<current_index_id, index_cache, index_map>>]_vars

\* C19 (as claimed). Connection liveness: a connection that holds a socket has
\* a live transport, and after a failed connect, send or readline (a zero-length
\* receive included) the connection holds no socket.
C19_ConnectionLiveness ==
    /\ \A c \in Conns : socket[c] => live[c]
    /\ (last.op \in {"connect", "send", "readline"} /\ last.exc # OK)
         => ~socket[last.conn]

FacadeWriteOps == {"manager_incr"}

\* the write requests of a call that reached the server: every find_modify or
\* insert request whose send did not fail
WritesReceived(l) ==
    {i \in 1 .. Len(l.sent) : l.sent[i].kind # "P" /\ l.sent[i].fault # "send_error"}

C21_ThreadConfinement ==
    [][/\ \A u \in Threads \ {last'.thread} : local'[u] = local[u]
       /\ \A x \in last'.sent : x[1] = last'.thread]_vars

\* a thread other than the constructing one has opened an index over its own
\* connection while the constructing thread holds an index too
C21_Witness ==
    /\ last.op = "get_index_id"
    /\ last.thread = "worker"
    /\ last.exc = OK
    /\ last.sent # {}
    /\ local["main"].init /\ local["main"].current_index_id > 0
    /\ local["worker"].init /\ local["worker"].current_index_id > 0

\* a session (one socket of a connection) on which a request is outstanding:
\* the peer closed the stream before the response line, and readline left the
\* socket in place
Outstanding(c) == socket[c] /\ ~live[c]

\* C22 (as claimed). Strict request/response sequencing: no request is sent on a
\* connection session on which an earlier request has neither had its response
\* line read nor caused the session to be torn down.
C22_Sequencing ==
    [][\A m \in SendsOf(last') : ~Outstanding(m.conn)]_vars

\* C23 (as claimed). Failover completeness: in a pool of any size and for every
\* shuffle, a resolve without affinity returns a connected connection whenever
\* some connection of the pool is ready and is connected or would connect.
C23_FailoverComplete ==
    (last.op = "resolve" /\ last.reachable # {})
        => /\ last.exc = OK
           /\ last.conn \in last.reachable
           /\ socket[last.conn]

\* a connection inside its backoff window: a deadline is armed and lies ahead
InBackoff(c) == retry_time[c] # 0 /\ retry_time[c] > now

\* C24. Backoff skip: a pool operation attempts no connect and sends no request
\* on a connection that is inside its backoff window when the operation runs,
\* and attempts at most one connect per connection; a connect on a connection
\* that has failed is attempted only once its deadline has been reached.
C24_BackoffSkip ==
    [][/\ \A i \in 1 .. Len(last'.connects) : ~InBackoff(last'.connects[i])
       /\ \A m \in SendsOf(last') : ~InBackoff(m.conn)
       /\ \A i, j \in 1 .. Len(last'.connects) :
            last'.connects[i] = last'.connects[j] => i = j]_vars

\* an index has been opened over a fresh connect while another connection of
\* the pool, not tried by the call, sits in a backoff armed earlier
C24_Witness ==
    /\ last.op = "get_index_id"
    /\ last.exc = OK
    /\ Len(last.connects) >= 1
    /\ \E c \in Conns :
         /\ InBackoff(c)
         /\ \A i \in 1 .. Len(last.connects) : last.connects[i] # c

\* the key->id cache holds only ids below the counter, each under one key
CacheBelowCounter(cache, counter) ==
    /\ \A k \in CacheKeys : cache[k] # None => cache[k] < counter
    /\ \A k1, k2 \in CacheKeys : (cache[k1] # None /\ cache[k1] = cache[k2]) => k1 = k2

\* C25. Index id allocation: a get_index_id cache miss that succeeds returns the
\* counter's value and moves the counter up by one; nothing else moves the
\* counter except purge() and purge_indexes(), which reset it to 0, so that
\* between two full purges the ids handed out are 0, 1, 2, ... and an id removed
\* by purge_index is not handed out again; in every state every cached id is
\* below the counter and no two cache keys hold the same id.
C25_IdAllocation ==
    [][/\ (last'.op = "get_index_id" /\ last'.exc = OK /\ last'.sent # <<>>)
            => /\ last'.ret = current_index_id
               /\ current_index_id' = current_index_id + 1
       /\ current_index_id' # current_index_id
            => \/ last'.op = "get_index_id" /\ last'.exc = OK /\ last'.sent # <<>>
               \/ last'.op \in {"purge", "purge_indexes"} /\ current_index_id' = 0
       /\ CacheBelowCounter(index_cache, current_index_id)
       /\ CacheBelowCounter(index_cache', current_index_id')]_vars

\* id 1 has been handed out after purge_index removed id 0, which stays unused
C25_Witness ==
    /\ last.op = "get_index_id"
    /\ last.exc = OK
    /\ last.sent # <<>>
    /\ last.ret = 1
    /\ 0 \notin CachedIds(PoolState)
    /\ index_map[0] = None

\* C26. Backoff only while disconnected: in every state reached through pool
\* operations a connection that holds a socket has retry_time = 0, so a deadline
\* is armed only on a connection whose socket the failure has removed.
C26_BackoffDisconnected ==
    \A c \in Conns : socket[c] => retry_time[c] = 0

\* a call has connected one connection, which holds a socket and no deadline,
\* while the other one has a deadline armed by a failure and no socket
C26_Witness ==
    /\ last.op \in BuilderOps \cup {"get_index_id"}
    /\ last.conn # None
    /\ socket[last.conn] /\ retry_time[last.conn] = 0
    /\ \E d \in Conns : d # last.conn /\ retry_time[d] # 0 /\ ~socket[d]

\* C27 (as claimed). Server-side handle validity: a find, find_modify or insert
\* request carrying index id i goes out on a socket session on which the
\* open-index request for i was sent and answered earlier; in particular it is
\* never the first request of a session that the call itself has just connected.
C27_HandleValidity ==
    (last.op \in BuilderOps /\ last.sent # <<>>)
        => \A m \in SendsOf(last) :
               \A i \in 1 .. Len(last.connects) : last.connects[i] # m.conn

\* C28 (as claimed). Server error leaves the session usable: a find,
\* find_modify or insert on a registered index id that is answered with a
\* nonzero status raises OperationalError and leaves the id's entries in both
\* caches, the id counter, every connection's socket and every backoff deadline
\* as they were before the call.
C28_ServerErrorFrame ==
    [][(/\ IsIdle
        /\ last'.op \in BuilderOps
        /\ last'.fault = "error_response"
        /\ index_map[last'.id] # None)
          => /\ last'.exc = OperErr
             /\ UNCHANGED <<index_map, index_cache, current_index_id, socket, retry_time>>]_vars

\* C29. Resolve postcondition: whenever _get_connection returns a connection,
\* with or without an index id and with or without force_index, that connection
\* holds a socket, has no backoff deadline armed, and index_map maps the index
\* id, if one was given, to the returned connection.
C29_ResolvePostcondition ==
    (last.op = "get_connection" /\ last.exc = OK)
        => /\ last.conn \in Conns
           /\ socket[last.conn]
           /\ retry_time[last.conn] = 0
           /\ last.id # None => index_map[last.id] = last.conn

\* a resolve for an index id has returned the second connection it tried to
\* connect, away from the connection the id was registered to
C29_Witness ==
    /\ last.op = "get_connection"
    /\ last.exc = OK
    /\ last.id # None
    /\ last.owner # None
    /\ last.owner # last.conn
    /\ Len(last.connects) >= 1
    /\ index_map[last.id] = last.conn

\* how many times byte b occurs in a line
Count(line, b) == Cardinality({i \in 1 .. Len(line) : line[i] = b})

\* what the server reads: the line without its end, cut at the tabs
RECURSIVE SplitTabs(_, _)
SplitTabs(line, token) ==
    IF Len(line) = 0 THEN <<token>>
    ELSE IF Head(line) = 9 THEN <<token>> \o SplitTabs(Tail(line), <<>>)
    ELSE SplitTabs(Tail(line), Append(token, Head(line)))

\* C30. Framing safety: the encoding of a column value holds no byte below
\* 0x10 other than the escape lead 0x01, or is the single NUL of an absent
\* value; so the request line of a find with N column values holds one line
\* feed, at its end, and splits at the tabs into the N + 5 tokens find built.
C30_FramingSafety ==
    codec.stage = "line"
        => /\ \A i \in 1 .. Len(codec.columns) :
                \/ codec.columns[i].none /\ codec.tokens[3 + i] = <<0>>
                \/ /\ ~codec.columns[i].none
                   /\ \A k \in 1 .. Len(codec.tokens[3 + i]) :
                        codec.tokens[3 + i][k] = 1 \/ codec.tokens[3 + i][k] > 15
           /\ Count(codec.line, 10) = 1
           /\ codec.line[Len(codec.line)] = 10
           /\ Count(codec.line, 9) = Len(codec.columns) + 4
           /\ SplitTabs(SubSeq(codec.line, 1, Len(codec.line) - 1), <<>>) = codec.tokens

\* a request has been built from a value that holds a tab and a line feed and
\* from an absent value
C30_Witness ==
    /\ codec.stage = "line"
    /\ codec.columns = <<Str(<<9, 10>>), NoneValue>>
    /\ codec.line = <<48, 9, 61, 9, 50, 9, 1, 73, 1, 74, 9, 0, 9, 48, 9, 48, 10>>

====
